---- MODULE Spec2Model ----
(***************************************************************************)
(* Model of the OpenERZ route generator (lib/route.js) and of the ETL job  *)
(* (loadData.js).                                                          *)
(*                                                                         *)
(* The server side: the configuration is drawn in Init, generateRoutes     *)
(* registers the routes phase by phase, and once the plugin is registered  *)
(* the server answers requests (router match, Joi validation, handler).    *)
(*                                                                         *)
(* Paths are sequences of segments; the trailing "{format?}" of a mixed    *)
(* last segment and a trailing "{x*}" wildcard are the path's tail.        *)
(* Query values are the strings of the wire; Joi converts them.            *)
(***************************************************************************)
EXTENDS Integers, Sequences, FiniteSets, TLC

VARIABLES
    config,     \* what lib/config exposes: [calendar, region, types]
    routes,     \* the server's route table, in registration order
    pc,         \* position of generateRoutes
    request,    \* the last request received (NoRequest before the first)
    response,   \* the answer to it
    etl         \* state of the ETL job (loadData.js)

vars == <<config, routes, pc, request, response, etl>>

\* ------------------------------------------------------------------ bounds

MaxDescriptors == 2
MaxRegions == 2
\* loadData.js lists 25 files; the model imports the first NumFiles of them,
\* each converted to at most MaxObjs objects.
NumFiles == 4
MaxObjs == 2

\* ------------------------------------------------------------- small helpers

Range(s) == {s[i] : i \in 1..Len(s)}

RECURSIVE SeqsUpTo(_, _)
SeqsUpTo(S, n) ==
    IF n = 0 THEN {<<>>}
    ELSE LET shorter == SeqsUpTo(S, n - 1)
         IN  shorter \cup {Append(s, x) : s \in {t \in shorter : Len(t) = n - 1}, x \in S}

\* JavaScript truthiness of an optional string: undefined and '' are both falsy.
\* An absent routeEntry.type is modelled as "".
Truthy(s) == s # ""

\* ------------------------------------------------------------------- Joi

\* A converted value: a string, a number (in tenths, so that 1.5 is 15) or a boolean.
StrVal(s) == [kind |-> "str", s |-> s, n |-> 0]
NumVal(tenths) == [kind |-> "num", s |-> "", n |-> tenths]
BoolVal(s) == [kind |-> "bool", s |-> s, n |-> 0]
NoVal == [kind |-> "none", s |-> "", n |-> 0]

\* Numeric strings of the wire and their values in tenths.
NumTable ==
    ("0" :> 0) @@ ("10" :> 100) @@ ("-1" :> -10) @@ ("1.5" :> 15)
    @@ ("999" :> 9990) @@ ("8000" :> 80000)

Tenths(n) == 10 * n

ZipMin == 1000
ZipMax == 9999
DefaultOffset == 0
DefaultLimit == 500

\* A rule: Joi.string() / Joi.number() / Joi.boolean() with its modifiers.
Rule(type) ==
    [type |-> type, values |-> {}, only |-> FALSE, integer |-> FALSE,
     hasMin |-> FALSE, min |-> 0, hasMax |-> FALSE, max |-> 0,
     hasDefault |-> FALSE, default |-> NoVal]

JoiString == Rule("string")
JoiNumber == Rule("number")
JoiBoolean == Rule("boolean")

\* any.allow(...values): the values are accepted in addition to what the type accepts.
Allow(rule, vs) == [rule EXCEPT !.values = vs]
\* any.valid(...values): the values are the only ones accepted.
Valid(rule, vs) == [rule EXCEPT !.values = vs, !.only = TRUE]
Integer(rule) == [rule EXCEPT !.integer = TRUE]
Min(rule, n) == [rule EXCEPT !.hasMin = TRUE, !.min = Tenths(n)]
Max(rule, n) == [rule EXCEPT !.hasMax = TRUE, !.max = Tenths(n)]
Default(rule, v) == [rule EXCEPT !.hasDefault = TRUE, !.default = v]

\* Whether the rule accepts the wire string v.
Accepts(rule, v) ==
    \/ v \in rule.values
    \/ /\ ~rule.only
       /\ CASE rule.type = "string" -> v # ""
            [] rule.type = "number" ->
                 /\ v \in DOMAIN NumTable
                 /\ rule.integer => NumTable[v] % 10 = 0
                 /\ rule.hasMin => NumTable[v] >= rule.min
                 /\ rule.hasMax => NumTable[v] <= rule.max
            [] rule.type = "boolean" -> v \in {"true", "false"}
            [] OTHER -> FALSE

Convert(rule, v) ==
    CASE rule.type = "number" /\ v \in DOMAIN NumTable -> NumVal(NumTable[v])
      [] rule.type = "boolean" -> BoolVal(v)
      [] OTHER -> StrVal(v)

\* Joi.object(schema).validate(obj): a key the schema does not name is an error,
\* a value its rule rejects is an error, an absent key takes its default.
ObjectAccepts(schema, obj) ==
    /\ DOMAIN obj \subseteq DOMAIN schema
    /\ \A k \in DOMAIN obj : Accepts(schema[k], obj[k])

ObjectValue(schema, obj) ==
    LET present == DOMAIN obj \cap DOMAIN schema
        defaulted == {k \in DOMAIN schema \ DOMAIN obj : schema[k].hasDefault}
    IN  [k \in present \cup defaulted |->
            IF k \in present THEN Convert(schema[k], obj[k]) ELSE schema[k].default]

\* underscore's _.pick(obj, keys) and _.omit(obj, keys)
Pick(obj, keys) == [k \in DOMAIN obj \cap keys |-> obj[k]]
Omit(obj, keys) == [k \in DOMAIN obj \ keys |-> obj[k]]

EmptyObject == [k \in {} |-> JoiString]
\* a route registered without validate.query / validate.params: nothing is checked
NoValidation == [on |-> FALSE, schema |-> EmptyObject]
Validate(schema) == [on |-> TRUE, schema |-> schema]

\* ------------------------------------------------------- lib/config (data)

\* config.types(): the global type list.
AllTypes == <<"waste", "paper">>

\* The calendar route descriptors config.calendar() may hold, which may hold
\* one twice. "tour" is a parameter name no schema declares.
DescriptorChoices ==
    { [type |-> "",      params |-> {"region", "zip", "types", "sort"}],
      [type |-> "paper", params |-> {"region", "zip", "sort", "tour"}],
      [type |-> "waste", params |-> {"zip", "types"}] }

\* The region descriptors config.region() may hold. "glass" is a type that
\* neither the global type list nor any calendar route descriptor declares.
RegionChoices ==
    { [types |-> <<"paper">>,          omitParams |-> {"region"}],
      [types |-> <<"paper", "waste">>, omitParams |-> {"region", "zip"}],
      [types |-> <<"waste", "glass">>, omitParams |-> {}] }

\* Region slugs in the order the configuration declares them, and the order
\* Array.prototype.sort gives the slugs and the other strings it compares.
RegionSlugs == <<"zurich", "basel", "thun", "aarau">>
Alphabetical == <<"aarau", "basel", "thun", "zurich">>

\* config.region(): slug -> descriptor, kept in declaration order.
RegionMaps ==
    UNION { { [i \in 1..n |->
                 [key |-> RegionSlugs[i], route |-> RegionSlugs[i],
                  types |-> c[i].types, omitParams |-> c[i].omitParams]]
              : c \in [1..n -> RegionChoices] }
            : n \in 0..MaxRegions }

Configs ==
    [calendar : SeqsUpTo(DescriptorChoices, MaxDescriptors),
     region   : RegionMaps,
     types    : {AllTypes}]

\* _.keys(config.region())
Keys(region) == {region[i].key : i \in 1..Len(region)}
\* regions[key]
Lookup(region, key) == region[CHOOSE i \in 1..Len(region) : region[i].key = key]

RECURSIVE Filter(_, _)
Filter(s, S) ==
    IF s = <<>> THEN <<>>
    ELSE IF Head(s) \in S THEN <<Head(s)>> \o Filter(Tail(s), S)
    ELSE Filter(Tail(s), S)

\* Array.prototype.sort() of a set of strings
Sort(S) == Filter(Alphabetical, S)

\* config.parameter(types): parameter name -> validation rule. The rule of
\* "types" admits the given types, the global ones when none are given.
Parameter(cfg, types) ==
    ("region" :> Valid(JoiString, Keys(cfg.region)))
    @@ ("zip" :> Max(Min(Integer(JoiNumber), ZipMin), ZipMax))
    @@ ("types" :> Valid(JoiString, Range(types)))
    @@ ("sort" :> JoiString)

ParameterGlobal(cfg) == Parameter(cfg, cfg.types)

\* An internally inconsistent configuration: a region names a type that
\* neither the global type list nor a calendar route descriptor declares.
Declared(cfg) ==
    Range(cfg.types) \cup {cfg.calendar[j].type : j \in 1..Len(cfg.calendar)}
Inconsistent(cfg) ==
    \E i \in 1..Len(cfg.region) : ~(Range(cfg.region[i].types) \subseteq Declared(cfg))

\* ------------------------------------------------------------ route table

Path(segs, tail) == [segs |-> segs, tail |-> tail]
Handler(kind, type, region) == [kind |-> kind, type |-> type, region |-> region]
Route(method, path, params, query, handler) ==
    [method |-> method, path |-> path, params |-> params, query |-> query,
     handler |-> handler]

\* server.route(r): hapi refuses a route whose method and path are those of a
\* route of the table (it throws), else the route joins the table.
Conflicts(table, r) ==
    \E i \in 1..Len(table) : table[i].method = r.method /\ table[i].path = r.path

ServerRoute(table, r) ==
    IF Conflicts(table, r)
    THEN [routes |-> table, threw |-> TRUE]
    ELSE [routes |-> Append(table, r), threw |-> FALSE]

\* server.route for each of rs in turn, up to the first that throws
RECURSIVE RouteEach(_, _)
RouteEach(table, rs) ==
    IF rs = <<>> THEN [routes |-> table, threw |-> FALSE]
    ELSE LET one == ServerRoute(table, Head(rs))
         IN  IF one.threw THEN one ELSE RouteEach(one.routes, Tail(rs))

RECURSIVE Flatten(_)
Flatten(ss) == IF ss = <<>> THEN <<>> ELSE Head(ss) \o Flatten(Tail(ss))

FormatParam(allowed) ==
    Validate("format" :> Default(Allow(JoiString, allowed), StrVal(".json")))

StaticRoutes ==
    << Route("GET", Path(<<"static">>, "wild"), NoValidation, NoValidation,
             Handler("directory", "public", "")),
       Route("GET", Path(<<"favicon.ico">>, "none"), NoValidation, NoValidation,
             Handler("file", "public/favicon.ico", "")),
       Route("GET", Path(<<"isalive">>, "none"), NoValidation, NoValidation,
             Handler("isalive", "", "")) >>

\* addApiDocRoutes without the catch-all '/{path*}'
ApiDocRoutesNoCatchAll ==
    << Route("GET", Path(<<"doc">>, "none"), NoValidation, NoValidation,
             Handler("redirectToDocs", "", "")),
       Route("GET", Path(<<"api">>, "none"), NoValidation, NoValidation,
             Handler("redirectToDocs", "", "")),
       Route("GET", Path(<<"apis.json">>, "none"), NoValidation, NoValidation,
             Handler("file", "public/apis.json", "")) >>

ApiDocRoutes ==
    << Route("GET", Path(<<>>, "wild"), NoValidation, NoValidation,
             Handler("redirectToDocs", "", "")),
       Route("GET", Path(<<"doc">>, "none"), NoValidation, NoValidation,
             Handler("redirectToDocs", "", "")),
       Route("GET", Path(<<"api">>, "none"), NoValidation, NoValidation,
             Handler("redirectToDocs", "", "")),
       Route("GET", Path(<<"apis.json">>, "none"), NoValidation, NoValidation,
             Handler("file", "public/apis.json", "")) >>

StationQuery(cfg) ==
    ("region" :> Valid(JoiString, Range(Sort(Keys(cfg.region)))))
    @@ ("zip" :> Max(Min(Integer(JoiNumber), ZipMin), ZipMax))
    @@ ("name" :> JoiString)
    @@ ("glass" :> JoiBoolean)
    @@ ("oil" :> JoiBoolean)
    @@ ("metal" :> JoiBoolean)
    @@ ("textile" :> JoiBoolean)
    @@ ("sort" :> JoiString)
    @@ ("offset" :> Default(JoiNumber, NumVal(Tenths(DefaultOffset))))
    @@ ("limit" :> Default(JoiNumber, NumVal(Tenths(DefaultLimit))))

StationRoutes(cfg) ==
    << Route("GET", Path(<<"api", "stations">>, "format"),
             FormatParam({"", ".json"}), Validate(StationQuery(cfg)),
             Handler("station", "", "")) >>

TypeSegs(type) == IF Truthy(type) THEN <<type>> ELSE <<>>

\* addCalendarRoutes with the type left out of the path
CalendarRouteUntyped(cfg, routeEntry) ==
    Route("GET", Path(<<"api", "calendar">>, "format"),
          FormatParam({"", ".ics", ".json"}),
          Validate(Pick(ParameterGlobal(cfg), routeEntry.params)),
          Handler("calendar", routeEntry.type, ""))

CalendarRoute(cfg, routeEntry) ==
    Route("GET", Path(<<"api", "calendar">> \o TypeSegs(routeEntry.type), "format"),
          FormatParam({"", ".ics", ".json"}),
          Validate(Pick(ParameterGlobal(cfg), routeEntry.params)),
          Handler("calendar", routeEntry.type, ""))

CalendarRoutes(cfg) ==
    [j \in 1..Len(cfg.calendar) |-> CalendarRoute(cfg, cfg.calendar[j])]

\* the guard without its "routeEntry.type &&"
SkippedWithoutTypeGuard(regionEntry, routeEntry) ==
    ~(routeEntry.type \in Range(regionEntry.types))

\* the guard of addRegionRoutes' inner loop: the descriptor is skipped when it
\* has a type the region does not list
Skipped(regionEntry, routeEntry) ==
    Truthy(routeEntry.type) /\ ~(routeEntry.type \in Range(regionEntry.types))

\* addRegionRoutes without the _.omit of the region's omitParams
RegionRouteNoOmit(cfg, regionEntry, routeEntry) ==
    LET params == Parameter(cfg, regionEntry.types)
    IN  Route("GET",
              Path(<<"api", "region", regionEntry.route, "calendar">>
                       \o TypeSegs(routeEntry.type), "format"),
              FormatParam({"", ".ics", ".json"}),
              Validate(Pick(params, routeEntry.params)),
              Handler("calendar", routeEntry.type, regionEntry.route))

RegionRoute(cfg, regionEntry, routeEntry) ==
    LET params == Omit(Parameter(cfg, regionEntry.types), regionEntry.omitParams)
    IN  Route("GET",
              Path(<<"api", "region", regionEntry.route, "calendar">>
                       \o TypeSegs(routeEntry.type), "format"),
              FormatParam({"", ".ics", ".json"}),
              Validate(Pick(params, routeEntry.params)),
              Handler("calendar", routeEntry.type, regionEntry.route))

RegionRoutes(cfg) ==
    Flatten([i \in 1..Len(cfg.region) |->
        Flatten([j \in 1..Len(cfg.calendar) |->
            IF Skipped(cfg.region[i], cfg.calendar[j]) THEN <<>>
            ELSE <<RegionRoute(cfg, cfg.region[i], cfg.calendar[j])>>])])

ParamRoutes(cfg) ==
    << Route("GET", Path(<<"api", "parameter", "regions">>, "none"),
             NoValidation, NoValidation, Handler("paramRegions", "", "")),
       Route("GET", Path(<<"api", "parameter", "types">>, "none"),
             NoValidation, Validate(Pick(ParameterGlobal(cfg), {"region"})),
             Handler("paramTypes", "", "")) >>

\* -------------------------------------------------------------- requests

\* A request: GET /api/calendar/paper.ics?zip=8000 is
\* [method "GET", segs <<"api","calendar","paper">>, fmt ".ics", query zip :> "8000"].
Req(method, segs, fmt, query, host) ==
    [method |-> method, segs |-> segs, fmt |-> fmt, query |-> query, host |-> host]

NoQuery == [k \in {} |-> ""]

\* paths of the API, of regions and types the configuration may or may not have
ApiPaths ==
    { <<"api", "stations">>,
      <<"api", "calendar">>, <<"api", "calendar", "paper">>,
      <<"api", "calendar", "glass">>,
      <<"api", "region", "zurich", "calendar">>,
      <<"api", "region", "zurich", "calendar", "waste">>,
      <<"api", "region", "atlantis", "calendar">>,
      <<"api", "parameter", "regions">>, <<"api", "parameter", "types">> }

OtherPaths == { <<"isalive">>, <<"api">>, <<"static", "index.html">>, <<"api", "nothing">> }

Formats == {"", ".json", ".ics", ".xml"}

Queries ==
    { "foo" :> "bar", "region" :> "zurich", "region" :> "atlantis",
      "zip" :> "8000", "zip" :> "999", "offset" :> "-1", "limit" :> "1.5",
      ("offset" :> "10") @@ ("limit" :> "abc") }

Hosts == {"openerz.metaodi.ch", "localhost:8080"}

Requests ==
    {Req("GET", p, f, NoQuery, "localhost:8080") : p \in ApiPaths, f \in Formats}
    \cup {Req("GET", p, "", q, "localhost:8080") : p \in ApiPaths, q \in Queries}
    \cup {Req(m, p, "", NoQuery, h) : m \in {"GET", "POST"}, p \in OtherPaths, h \in Hosts}
    \cup {Req("GET", <<"isalive">>, ".json", NoQuery, "localhost:8080")}

NoRequest == Req("", <<>>, "", NoQuery, "")

\* --------------------------------------------------------------- router

IsPrefix(s, t) == Len(s) <= Len(t) /\ SubSeq(t, 1, Len(s)) = s

\* Whether the route's method and path match the request.
Matches(r, req) ==
    /\ r.method = req.method
    /\ CASE r.path.tail = "none"   -> r.path.segs = req.segs /\ req.fmt = ""
         [] r.path.tail = "format" -> r.path.segs = req.segs
         [] r.path.tail = "wild"   -> IsPrefix(r.path.segs, req.segs)
         [] OTHER -> FALSE

\* hapi's order among the matching routes: a literal segment before a mixed
\* one before a wildcard, the longer literal prefix first.
Specificity(r) ==
    CASE r.path.tail = "none"   -> 2000 + Len(r.path.segs)
      [] r.path.tail = "format" -> 1000 + Len(r.path.segs)
      [] OTHER -> Len(r.path.segs)

Matching(table, req) == {i \in 1..Len(table) : Matches(table[i], req)}

\* The index of the route that serves the request, 0 when none does.
Match(table, req) ==
    LET m == Matching(table, req)
    IN  IF m = {} THEN 0
        ELSE CHOOSE i \in m :
                \A k \in m : Specificity(table[i]) >= Specificity(table[k])

\* request.params of a matched route
ParamsOf(r, req) ==
    IF r.path.tail = "format" /\ req.fmt # "" THEN "format" :> req.fmt
    ELSE NoQuery

\* -------------------------------------------------------------- handlers

NoBody == [total_count |-> 0, row_count |-> 0, result |-> <<>>,
           protocol |-> "", host |-> ""]

Response(outcome, status, handler, query, body) ==
    [outcome |-> outcome, status |-> status, handler |-> handler,
     query |-> query, body |-> body]

NoHandler == Handler("", "", "")
NoValues == [k \in {} |-> NoVal]
NoResponse == Response("", 0, NoHandler, NoValues, NoBody)

ListBody(docs) ==
    [NoBody EXCEPT !.total_count = Len(docs), !.row_count = Len(docs), !.result = docs]

\* redirectToDocs
RedirectToDocs(req) ==
    [NoBody EXCEPT
        !.protocol = IF req.host = "openerz.metaodi.ch" THEN "https" ELSE "http",
        !.host = req.host]

\* handler of /api/parameter/regions
ParamRegionsHandler(cfg) == ListBody(Sort(Keys(cfg.region)))

\* handler of /api/parameter/types: regions[region]['types'] throws a TypeError
\* when regions has no such key
ParamTypesThrows(cfg, query) ==
    /\ "region" \in DOMAIN query
    /\ Truthy(query["region"].s)
    /\ query["region"].s \notin Keys(cfg.region)

\* the handler with the region branch lost
ParamTypesHandlerGlobal(cfg, query) == ListBody(cfg.types)

ParamTypesHandler(cfg, query) ==
    IF "region" \in DOMAIN query /\ Truthy(query["region"].s)
    THEN ListBody(Lookup(cfg.region, query["region"].s).types)
    ELSE ListBody(cfg.types)

\* Validation of the request against the route, then the route's handler.
Handle(cfg, r, req) ==
    LET params == ParamsOf(r, req)
        paramsOk == r.params.on => ObjectAccepts(r.params.schema, params)
        queryOk == r.query.on => ObjectAccepts(r.query.schema, req.query)
        query == IF r.query.on THEN ObjectValue(r.query.schema, req.query)
                 ELSE [k \in DOMAIN req.query |-> StrVal(req.query[k])]
        h == r.handler
    IN  IF ~(paramsOk /\ queryOk)
        THEN Response("validation_failure", 400, h, NoValues, NoBody)
        ELSE CASE h.kind = "redirectToDocs" ->
                    Response("redirect", 302, h, query, RedirectToDocs(req))
               [] h.kind = "paramRegions" ->
                    Response("handled", 200, h, query, ParamRegionsHandler(cfg))
               [] h.kind = "paramTypes" ->
                    IF ParamTypesThrows(cfg, query)
                    THEN Response("handler_error", 500, h, query, NoBody)
                    ELSE Response("handled", 200, h, query, ParamTypesHandler(cfg, query))
               [] OTHER -> Response("handled", 200, h, query, NoBody)

Respond(cfg, table, req) ==
    LET i == Match(table, req)
    IN  IF i = 0 THEN Response("not_found", 404, NoHandler, NoValues, NoBody)
        ELSE Handle(cfg, table[i], req)

\* ------------------------------------------------------------- loadData.js

\* csvs: the files in list order, each with its collection and type
Csvs ==
    << [collection |-> "station",  type |-> "stations"],
       [collection |-> "calendar", type |-> "organic"],
       [collection |-> "calendar", type |-> "cargotram"],
       [collection |-> "calendar", type |-> "etram"],
       [collection |-> "calendar", type |-> "cardboard"] >>

\* What the job invokes, in order: an entry of etl.log.
Event(op, collection, file, obj, type) ==
    [op |-> op, collection |-> collection, file |-> file, obj |-> obj, type |-> type]

\* A record of the store: object obj of file `file`, in its collection.
Record(collection, file, obj, type) ==
    [collection |-> collection, file |-> file, obj |-> obj, type |-> type]

\* What an earlier run left in the two collections named by coll.
Previous == {Record("station", 0, 1, ""), Record("calendar", 0, 1, "organic")}

\* The job and its database: the position of the script, what it has invoked,
\* the current file, the exit code, and on the database's side the number of
\* invoked inserts it has executed, the collections whose remove it has
\* executed, and the records it holds.
EtlIdle ==
    [pc |-> "idle", log |-> <<>>, file |-> 0, exit |-> -1,
     executed |-> 0, cleared |-> {}, store |-> Previous]
EtlLoaded ==
    [pc |-> "loaded", log |-> <<>>, file |-> 0, exit |-> -1,
     executed |-> 0, cleared |-> {}, store |-> Previous]

\* the 'ready' handler without db.calendar.remove()
RemoveStationOnly == << Event("remove", "station", 0, 0, "") >>

\* the head of the 'ready' handler: the previous entries are removed
RemovePrevious ==
    << Event("remove", "station", 0, 0, ""), Event("remove", "calendar", 0, 0, "") >>

\* the completion callback of async.eachSeries
Completion(err) == << Event("exit", "", 0, IF err THEN 1 ELSE 0, "") >>

\* the _.each of importCsv's callback: one insert per converted object, the
\* type set on every object but a station
Inserts(k, n) ==
    [i \in 1..n |->
        Event("insert", Csvs[k].collection, k, i,
              IF Csvs[k].type # "stations" THEN Csvs[k].type ELSE "")]

\* The iteratee of async.eachSeries on file k: importCsv hands the file to
\* csv.convertToJson, which either returns (its callback comes later) or
\* throws, and then the catch calls back with the error, which ends the series.
Iteratee(e, k, throws) ==
    IF throws
    THEN [e EXCEPT
            !.log = e.log \o << Event("import", Csvs[k].collection, k, 0, ""),
                                Event("callback", "", k, 1, "") >>
                          \o Completion(TRUE),
            !.file = k, !.pc = "exited", !.exit = 1]
    ELSE [e EXCEPT
            !.log = e.log \o << Event("import", Csvs[k].collection, k, 0, "") >>,
            !.file = k, !.pc = "converting"]

\* The callback importCsv gave csv.convertToJson, called with n objects: the
\* inserts, then eachSeries' callback, which runs the next file's iteratee or,
\* after the last file, the completion callback.
Converted(e, n, throws) ==
    LET k == e.file
        inserted == [e EXCEPT
                       !.log = e.log \o << Event("converted", "", k, n, "") >>
                                     \o Inserts(k, n)
                                     \o << Event("callback", "", k, 0, "") >>]
    IN  IF k < NumFiles THEN Iteratee(inserted, k + 1, throws)
        ELSE [inserted EXCEPT !.log = inserted.log \o Completion(FALSE),
                              !.pc = "exited", !.exit = 0]

\* The 'ready' handler.
Ready(e, throws) ==
    Iteratee([e EXCEPT !.log = e.log \o RemovePrevious], 1, throws)

\* The 'error' handler: it logs the error and returns; nothing else is
\* invoked, and the script has no other handler to run.
DatabaseError(e) == [e EXCEPT !.pc = "errored"]

\* The inserts the job has invoked so far, in order. None of them is given a
\* callback: the job does not learn when, or whether, the database ran them.
Issued(log) == SelectSeq(log, LAMBDA ev : ev.op = "insert")

\* The invoked inserts the database has not executed yet.
Pending(e) == SubSeq(Issued(e.log), e.executed + 1, Len(Issued(e.log)))

\* collection.insert(obj) on the database's side: the next pending insert is
\* executed and its object is in the collection.
InsertExecuted(e) ==
    LET ev == Pending(e)[1]
    IN  [e EXCEPT !.executed = e.executed + 1,
                  !.store = e.store \cup
                            {Record(ev.collection, ev.file, ev.obj, ev.type)}]

\* db.<collection>.remove() on the database's side: remove() is invoked
\* without a callback too, and is executed at some time after its
\* invocation; every record the collection holds at that time is deleted.
RemoveExecuted(e, collection) ==
    [e EXCEPT !.cleared = e.cleared \cup {collection},
              !.store = {r \in e.store : r.collection # collection}]

\* ---------------------------------------------------------------- actions

Init ==
    /\ config \in Configs
    /\ routes = <<>>
    /\ pc = "static"
    /\ request = NoRequest
    /\ response = NoResponse
    /\ etl = EtlIdle

\* One phase of generateRoutes: the routes are added in turn; an error of
\* server.route is logged and thrown again, which ends the registration.
Phase(at, rs, next) ==
    /\ pc = at
    /\ LET done == RouteEach(routes, rs)
       IN  /\ routes' = done.routes
           /\ pc' = IF done.threw THEN "failed" ELSE next
    /\ UNCHANGED <<config, request, response, etl>>

addStaticRoutes == Phase("static", StaticRoutes, "apidoc")
addApiDocRoutes == Phase("apidoc", ApiDocRoutes, "station")
addStationRoutes == Phase("station", StationRoutes(config), "calendar")
addCalendarRoutes == Phase("calendar", CalendarRoutes(config), "region")
addRegionRoutes == Phase("region", RegionRoutes(config), "param")
addParamRoutes == Phase("param", ParamRoutes(config), "done")

\* The server, started, answers a request: the router finds the route, hapi
\* validates params and query against it, the handler runs.
HandleRequest ==
    /\ pc = "done"
    /\ request = NoRequest
    /\ \E req \in Requests :
          /\ request' = req
          /\ response' = Respond(config, routes, req)
    /\ UNCHANGED <<config, routes, pc, etl>>

\* The response is sent; the server keeps nothing of the request.
Reply ==
    /\ request # NoRequest
    /\ request' = NoRequest
    /\ response' = NoResponse
    /\ UNCHANGED <<config, routes, pc, etl>>

Next ==
    \/ addStaticRoutes
    \/ addApiDocRoutes
    \/ addStationRoutes
    \/ addCalendarRoutes
    \/ addRegionRoutes
    \/ addParamRoutes
    \/ HandleRequest
    \/ Reply

Spec == Init /\ [][Next]_vars

\* ------------------------------------------------------- loadData.js actions

\* The configuration the server of the ETL runs stays with: the job does not
\* read it.
QuietConfig == [calendar |-> <<>>, region |-> <<>>, types |-> AllTypes]

InitETL ==
    /\ config = QuietConfig
    /\ routes = <<>>
    /\ pc = "static"
    /\ request = NoRequest
    /\ response = NoResponse
    /\ etl = EtlLoaded

\* db.open(), the last statement of the script
DbOpen ==
    /\ etl.pc = "loaded"
    /\ etl' = [etl EXCEPT !.pc = "opening"]
    /\ UNCHANGED <<config, routes, pc, request, response>>

\* the database emits 'ready'
DbReady ==
    /\ etl.pc = "opening"
    /\ \E throws \in BOOLEAN : etl' = Ready(etl, throws)
    /\ UNCHANGED <<config, routes, pc, request, response>>

\* csv.convertToJson calls back with the objects of the current file
CsvConverted ==
    /\ etl.pc = "converting"
    /\ \E n \in 0..MaxObjs, throws \in BOOLEAN : etl' = Converted(etl, n, throws)
    /\ UNCHANGED <<config, routes, pc, request, response>>

\* the database emits 'error' in answer to db.open(): it cannot be reached
DbError ==
    /\ etl.pc = "opening"
    /\ etl' = DatabaseError(etl)
    /\ UNCHANGED <<config, routes, pc, request, response>>

\* the database executes the oldest insert it has not executed
DbInsert ==
    /\ Pending(etl) # <<>>
    /\ etl' = InsertExecuted(etl)
    /\ UNCHANGED <<config, routes, pc, request, response>>

\* the database executes a remove that was invoked
DbRemove ==
    /\ \E ev \in Range(etl.log) :
          /\ ev.op = "remove"
          /\ ev.collection \notin etl.cleared
          /\ etl' = RemoveExecuted(etl, ev.collection)
    /\ UNCHANGED <<config, routes, pc, request, response>>

NextETL ==
    \/ DbOpen
    \/ DbReady
    \/ CsvConverted

SpecETL == InitETL /\ [][NextETL]_vars

\* the job together with its database
NextDatabase ==
    \/ NextETL
    \/ DbError
    \/ DbInsert
    \/ DbRemove

\* Node runs a callback that is due; the database answers db.open() with
\* 'ready' or with 'error'. The job waits for no database operation, so
\* nothing is assumed of when the database executes them.
SpecDatabase ==
    /\ InitETL
    /\ [][NextDatabase]_vars
    /\ WF_vars(DbOpen)
    /\ WF_vars(DbReady \/ DbError)
    /\ WF_vars(CsvConverted)


\* ============================================================ properties

\* The descriptor a registered calendar route came from: server.route refuses
\* a second route of the same path, so it is the first descriptor of its type.
DescriptorOf(cfg, type) ==
    LET js == {j \in 1..Len(cfg.calendar) : cfg.calendar[j].type = type}
    IN  cfg.calendar[CHOOSE j \in js : \A k \in js : j <= k]

\* The projection the specification gives: pick, then the region's omit.
Projection(cfg, h) ==
    LET D == DescriptorOf(cfg, h.type)
    IN  IF h.region = "" THEN Pick(ParameterGlobal(cfg), D.params)
        ELSE LET R == Lookup(cfg.region, h.region)
             IN  Omit(Pick(Parameter(cfg, R.types), D.params), R.omitParams)

\* The names of the single-parameter queries a route's validator accepts.
ProbeNames == {"region", "zip", "types", "sort", "tour", "foo", "offset"}
ProbeValues == {"zurich", "8000", "paper", "waste"}
AcceptedNames(r) ==
    {k \in ProbeNames :
        \E v \in ProbeValues : r.query.on => ObjectAccepts(r.query.schema, k :> v)}

\* C1: every registered calendar route, global or region-scoped, validates its
\* query against exactly pick(parameterSchema(types), descriptor.params) minus
\* the region's omitParams: the same names with the same rules, and no query
\* with a name outside them is accepted, although addRegionRoutes omits before
\* it picks.
C1_PermittedParameters ==
    \A i \in 1..Len(routes) :
        routes[i].handler.kind = "calendar" =>
            LET projection == Projection(config, routes[i].handler)
            IN  /\ routes[i].query.on
                /\ routes[i].query.schema = projection
                /\ DOMAIN routes[i].query.schema = DOMAIN projection
                /\ AcceptedNames(routes[i]) \subseteq DOMAIN projection

\* a region route whose region omits a parameter its descriptor lists, and whose
\* descriptor lists a name the schema does not hold
C1_Witness ==
    \E i \in 1..Len(routes) :
        LET h == routes[i].handler
        IN  /\ h.kind = "calendar"
            /\ h.region # ""
            /\ Lookup(config.region, h.region).omitParams
                  \cap DescriptorOf(config, h.type).params # {}
            /\ "tour" \in DescriptorOf(config, h.type).params
            /\ DOMAIN routes[i].query.schema # {}

\* The region-scoped route of region R and descriptor D, the global one of D.
HasRegionRoute(table, R, D) ==
    \E i \in 1..Len(table) :
        /\ table[i].method = "GET"
        /\ table[i].path = Path(<<"api", "region", R.route, "calendar">> \o TypeSegs(D.type),
                                "format")
        /\ table[i].handler = Handler("calendar", D.type, R.route)

GlobalRoutes(table, D) ==
    {i \in 1..Len(table) :
        /\ table[i].path = Path(<<"api", "calendar">> \o TypeSegs(D.type), "format")
        /\ table[i].handler = Handler("calendar", D.type, "")}

\* C2: once the routes are generated, region R has a route for descriptor D
\* exactly when D has no type or R lists D's type, and every descriptor has
\* exactly one global route, the global calendar routes being as many as the
\* descriptors.
C2_RegionRouteIffType ==
    pc = "done" =>
        /\ \A i \in 1..Len(config.region), j \in 1..Len(config.calendar) :
              HasRegionRoute(routes, config.region[i], config.calendar[j])
                 <=> \/ config.calendar[j].type = ""
                     \/ config.calendar[j].type \in Range(config.region[i].types)
        /\ \A j \in 1..Len(config.calendar) :
              Cardinality(GlobalRoutes(routes, config.calendar[j])) = 1
        /\ Cardinality({i \in 1..Len(routes) :
                            routes[i].handler.kind = "calendar"
                            /\ routes[i].handler.region = ""})
              = Len(config.calendar)

\* generation is over, a region has one descriptor's route and lacks another's
C2_Witness ==
    /\ pc = "done"
    /\ \E i \in 1..Len(config.region), j, k \in 1..Len(config.calendar) :
          /\ HasRegionRoute(routes, config.region[i], config.calendar[j])
          /\ ~HasRegionRoute(routes, config.region[i], config.calendar[k])
          /\ config.calendar[k].type # ""

\* A configuration whose descriptors differ in type (its regions differ in
\* slug, being keys of one mapping).
DistinctTypes(cfg) ==
    \A j, k \in 1..Len(cfg.calendar) :
        cfg.calendar[j].type = cfg.calendar[k].type => j = k

\* C3: no two routes of the table share their method and path, whatever the
\* configuration and however far generateRoutes got; and the generator takes
\* every configuration whose descriptors differ in type, its own paths never
\* colliding with each other or with the fixed routes.
C3_NoDuplicateRoutes ==
    /\ Cardinality({<<routes[i].method, routes[i].path>> : i \in 1..Len(routes)})
          = Len(routes)
    /\ DistinctTypes(config) => pc # "failed"

\* the whole table of two regions and two descriptors
C3_Witness ==
    /\ pc = "done"
    /\ Len(config.region) = 2
    /\ Len(config.calendar) = 2
    /\ Len(routes) > 12

\* The routes of the API proper, by handler.
ApiKinds == {"station", "calendar", "paramRegions", "paramTypes"}

Answered == pc = "done" /\ request # NoRequest

\* The route that serves the last request.
Served == routes[Match(routes, request)]

FormatsOf(kind) == IF kind = "station" THEN {"", ".json"} ELSE {"", ".json", ".ics"}

\* C4: the station route takes the format suffixes '' and '.json' and no
\* other, a calendar route '', '.json' and '.ics' and no other: any other
\* suffix is a validation failure.
C4_FormatRestricted ==
    (Answered /\ response.handler.kind \in {"station", "calendar"}) =>
        /\ request.fmt \notin FormatsOf(response.handler.kind)
              => response.outcome = "validation_failure"
        /\ (request.fmt \in FormatsOf(response.handler.kind) /\ request.query = NoQuery)
              => response.outcome = "handled"

\* C5: on every API route a query parameter the route does not permit is a
\* validation failure; the handler does not run.
C5_UnknownQueryRejected ==
    (Answered /\ response.handler.kind \in ApiKinds
              /\ ~(DOMAIN request.query \subseteq DOMAIN Served.query.schema))
        => response.outcome = "validation_failure"

NonNegativeInteger(v) ==
    v \in DOMAIN NumTable /\ NumTable[v] % 10 = 0 /\ NumTable[v] >= 0

\* C6: the station route takes offset and limit only as non-negative integers
\* and gives an absent offset the value 0, an absent limit the value 500.
C6_OffsetLimit ==
    (Answered /\ response.handler.kind = "station") =>
        /\ (\E k \in {"offset", "limit"} \cap DOMAIN request.query :
                ~NonNegativeInteger(request.query[k]))
              => response.outcome = "validation_failure"
        /\ response.outcome = "handled" =>
              /\ "offset" \notin DOMAIN request.query
                    => response.query["offset"] = NumVal(Tenths(DefaultOffset))
              /\ "limit" \notin DOMAIN request.query
                    => response.query["limit"] = NumVal(Tenths(DefaultLimit))

\* A GET request no route but the catch-all '/{path*}' matches: an unknown
\* region, an unknown type, an unknown path.
Unrouted ==
    /\ Answered
    /\ request.method = "GET"
    /\ \A i \in Matching(routes, request) : routes[i].path = Path(<<>>, "wild")

\* C7 as stated: such a request is answered NotFound, a 4xx.
C7_NotFound ==
    Unrouted => (response.outcome = "not_found" /\ response.status \in 400..499)

\* C7 as the code has it: such a request is served by the catch-all route and
\* redirected to /documentation on the request's host, by https on
\* openerz.metaodi.ch and by http elsewhere.
C7_RedirectToDocs ==
    Unrouted =>
        /\ response.outcome = "redirect"
        /\ response.status = 302
        /\ response.handler.kind = "redirectToDocs"
        /\ response.body.host = request.host
        /\ response.body.protocol =
              (IF request.host = "openerz.metaodi.ch" THEN "https" ELSE "http")

\* the calendar of a region the configuration does not have was asked for
C7_Witness ==
    /\ Unrouted
    /\ request.segs = <<"api", "region", "atlantis", "calendar">>
    /\ response.outcome = "redirect"

C9_ParameterTypes ==
    (Answered /\ response.handler.kind = "paramTypes"
              /\ response.outcome # "validation_failure") =>
        /\ response.outcome = "handled"
        /\ response.status = 200
        /\ IF "region" \in DOMAIN request.query
           THEN /\ request.query["region"] \in Keys(config.region)
                /\ response.body.result
                      = Lookup(config.region, request.query["region"]).types
           ELSE response.body.result = config.types
        /\ response.body.total_count = Len(response.body.result)
        /\ response.body.row_count = Len(response.body.result)

\* the types of a region whose list is not the global one were asked for
C9_Witness ==
    /\ Answered
    /\ response.handler.kind = "paramTypes"
    /\ response.outcome = "handled"
    /\ "region" \in DOMAIN request.query
    /\ response.body.result # config.types
    /\ response.body.total_count = 2

\* ------------------------------------------------------------ loadData.js

InsertsOf(log, k, upto) ==
    Cardinality({a \in 1..upto : log[a].op = "insert" /\ log[a].file = k})

\* C10: in every run of the job both collections are cleared before anything
\* else is invoked, so before every insert; the files are imported one at a
\* time in list order, every insert of a file invoked before the next file's
\* import begins; and the exit comes last, after the callback of the last
\* import that was started.
C10_EtlOrder ==
    LET log == etl.log
    IN  /\ Len(log) >= 1 => log[1] = Event("remove", "station", 0, 0, "")
        /\ Len(log) >= 2 => log[2] = Event("remove", "calendar", 0, 0, "")
        /\ \A i \in 1..Len(log) :
              log[i].op = "insert" =>
                 /\ \E a, b \in 1..(i - 1) :
                       /\ log[a].op = "remove" /\ log[a].collection = "station"
                       /\ log[b].op = "remove" /\ log[b].collection = "calendar"
                 /\ \E a \in 1..(i - 1) : log[a].op = "import" /\ log[a].file = log[i].file
        /\ \A i, j \in 1..Len(log) :
              (i < j /\ log[i].op = "import" /\ log[j].op = "import")
                 => log[j].file > log[i].file
        /\ \A j \in 1..Len(log) :
              log[j].op \in {"import", "insert"} =>
                 \A k \in 1..(log[j].file - 1) :
                    \E c \in 1..(j - 1) :
                       /\ log[c].op = "converted" /\ log[c].file = k
                       /\ InsertsOf(log, k, j) = log[c].obj
                       /\ InsertsOf(log, k, Len(log)) = log[c].obj
        /\ \A i \in 1..Len(log) :
              log[i].op = "exit" =>
                 /\ i = Len(log)
                 /\ etl.file >= 1
                 /\ \A a \in 1..i : log[a].op = "import" => log[a].file <= etl.file
                 /\ \E c \in 1..(i - 1) : log[c].op = "callback" /\ log[c].file = etl.file
        /\ etl.pc = "exited" <=> (Len(log) >= 1 /\ log[Len(log)].op = "exit")

\* a run that imported every file, two objects of one and one of another, and
\* exited
C10_Witness ==
    /\ etl.pc = "exited"
    /\ etl.exit = 0
    /\ \E k, m \in 1..NumFiles :
          /\ k < m
          /\ InsertsOf(etl.log, k, Len(etl.log)) = 2
          /\ InsertsOf(etl.log, m, Len(etl.log)) = 1

\* The records the job converted: object i of file k for every i up to the
\* number of objects the conversion of file k called back with, in the file's
\* collection and, but for a station, tagged with the file's type.
ConvertedRecords(log) ==
    {Record(Csvs[ev.file].collection, ev.file, i,
            IF Csvs[ev.file].type # "stations" THEN Csvs[ev.file].type ELSE "") :
        <<ev, i>> \in {<<x, j>> \in Range(log) \X (1..MaxObjs) :
                          x.op = "converted" /\ j <= x.obj}}

\* C11: whenever the job has exited with code 0, no insert it invoked is
\* still pending, and the store holds every record converted from every
\* listed file, one per converted object with the type of its file: none was
\* lost to the job's own clearing of the collections.
C11_StoreComplete ==
    (etl.pc = "exited" /\ etl.exit = 0) =>
        /\ Pending(etl) = <<>>
        /\ \A k \in 1..NumFiles :
              \E ev \in Range(etl.log) : ev.op = "converted" /\ ev.file = k
        /\ ConvertedRecords(etl.log) \subseteq etl.store

\* some import failed: the iteratee called back with an error
ImportFailed(log) == \E ev \in Range(log) : ev.op = "callback" /\ ev.obj = 1

====
